---- MODULE Spec2Model ----
(***************************************************************************)
(* ngx-mf-remote-loader: the RemoteLoader contract, its browser and server *)
(* implementations and the remoteLoader route helper, as a state machine.  *)
(*                                                                         *)
(* JavaScript values are records with a "kind" field; an object that owns  *)
(* a RemoteEntryModule property has that field in its record domain.       *)
(* Strings are TLA+ strings, so remoteName + remoteModule is \o.           *)
(***************************************************************************)
EXTENDS Integers, Sequences, FiniteSets, Bags, TLC

VARIABLES
    injected,         \* which RemoteLoader implementation the injector provides
    NODE_ENV,         \* process.env.NODE_ENV
    remoteModuleMap,  \* RemoteLoaderServer.remoteModuleMap: own entries and prototype
    registered,       \* history: per pair, the importFn last passed to registerRemoteModule
    overwritten,      \* history: pairs re-registered with a different importFn
    pending,          \* bag of loads whose returned promise has not settled yet
    completed,        \* the outcome most recently handed to a caller of load
    proxyModules,     \* names for which remoteLoader(name) built a ProxyRoutingModule
    instances,        \* invocations of the factories returned by remoteLoader
    twin              \* server and browser outcome of one load, side by side

vars == <<injected, NODE_ENV, remoteModuleMap, registered, overwritten,
          pending, completed, proxyModules, instances, twin>>

(***************************************************************************)
(* Bounds                                                                  *)
(***************************************************************************)
\* loads in flight at the same time
MaxPending == 2
\* invocations of route factories
MaxInstances == 2
\* calls of one route's loadChildren closure
MaxRouteLoads == 2

(***************************************************************************)
(* JavaScript values                                                       *)
(***************************************************************************)
Undefined == [kind |-> "undefined"]
Null == [kind |-> "null"]
Zero == [kind |-> "number", id |-> "0"]
EntryX == [kind |-> "object", id |-> "X"]
PlainY == [kind |-> "object", id |-> "Y"]
WithEntry == [kind |-> "object", id |-> "M", RemoteEntryModule |-> EntryX]
WithFalsyEntry == [kind |-> "object", id |-> "Z", RemoteEntryModule |-> Zero]
EmptyObject == [kind |-> "object", id |-> "{}"]
UpstreamError == [kind |-> "error", name |-> "ChunkLoadError",
                  message |-> "Loading chunk failed"]

\* what a factory's promise, or the federation runtime's, can resolve to
ResolvedValues == {Undefined, Null, PlainY, WithEntry, WithFalsyEntry}
\* how such a promise can settle
Fulfilled(v) == [state |-> "fulfilled", value |-> v]
Rejected(e) == [state |-> "rejected", value |-> e]
NotSettled == [state |-> "none", value |-> Undefined]
Settlements == {Fulfilled(v) : v \in ResolvedValues} \cup {Rejected(UpstreamError)}

IsNullish(v) == v.kind \in {"undefined", "null"}
Truthy(v) == /\ ~IsNullish(v)
             /\ ~(v.kind = "number" /\ v.id = "0")
HasRemoteEntryModule(m) == ~IsNullish(m) /\ "RemoteEntryModule" \in DOMAIN m
\* m.RemoteEntryModule on a non-nullish m
GetRemoteEntryModule(m) ==
    IF "RemoteEntryModule" \in DOMAIN m THEN m.RemoteEntryModule ELSE Undefined

Return(v) == [threw |-> FALSE, value |-> v]
Throw(e) == [threw |-> TRUE, value |-> e]
\* m.RemoteEntryModule on null or on undefined; the message names which
NullishAccess(m) ==
    [kind |-> "error", name |-> "TypeError",
     message |-> "Cannot read properties of " \o m.kind
                    \o " (reading 'RemoteEntryModule')"]
\* importFn() on a value that is no function
NotCallable == [kind |-> "error", name |-> "TypeError",
                message |-> "importFn is not a function"]
\* .then read from what importFn() returned, which has none
NotThenable == [kind |-> "error", name |-> "TypeError",
                message |-> "importFn(...).then is not a function"]
\* a built-in of Object.prototype that converts its receiver, called without one
NoReceiver == [kind |-> "error", name |-> "TypeError",
               message |-> "Cannot convert undefined or null to object"]
ToLocaleStringNoReceiver ==
    [kind |-> "error", name |-> "TypeError",
     message |-> "Object.prototype.toLocaleString called on null or undefined"]
\* built-ins of Function.prototype called without a function as receiver
ToStringNoFunction ==
    [kind |-> "error", name |-> "TypeError",
     message |-> "Function.prototype.toString requires that 'this' be a Function"]
BindNoFunction == [kind |-> "error", name |-> "TypeError",
                   message |-> "Bind must be called on a function"]
\* reading arguments or caller through Function.prototype
RestrictedAccess ==
    [kind |-> "error", name |-> "TypeError",
     message |-> "'caller', 'callee', and 'arguments' properties may not be accessed "
                    \o "on strict mode functions or the arguments objects for calls to them"]

(***************************************************************************)
(* Names                                                                   *)
(***************************************************************************)
Factories == {"F1", "F2"}
NoFn == "undefined"
\* pairs that calling code registers
RegPairs == {<<"app1", "Module">>, <<"app", "1Module">>, <<"exampleApp", "Module">>}
\* the pair whose key is the name of the prototype accessor
ProtoPair == <<"__proto", "__">>
\* pairs that a registration can be recorded for
AllRegPairs == RegPairs \cup {ProtoPair}
\* pairs that callers load
LoadPairs == RegPairs \cup {<<"example", "App">>, <<"to", "String">>,
                             <<"value", "Of">>, <<"__proto", "__">>}
RouteNames == {"app1", "exampleApp"}
Key(remoteName, remoteModule) == remoteName \o remoteModule
Keys == {Key(p[1], p[2]) : p \in LoadPairs}
\* names every plain object inherits from Object.prototype
ObjectPrototypeKeys ==
    {"__defineGetter__", "__defineSetter__", "__lookupGetter__", "__lookupSetter__",
     "__proto__", "constructor", "hasOwnProperty", "isPrototypeOf",
     "propertyIsEnumerable", "toLocaleString", "toString", "valueOf"}
\* names a function contributes to the chain when it is the table's prototype:
\* its own length and name, and what Function.prototype defines
FunctionReadOnlyKeys == {"length", "name"}
FunctionRestrictedKeys == {"arguments", "caller"}
FunctionPrototypeKeys == {"apply", "bind", "call", "constructor", "toString"}
\* the prototype of {}; table.__proto__ reads as this object until it is replaced
ObjectProto == "Object.prototype"
\* values a lookup can yield besides factories and built-ins: the length of a
\* zero-argument factory, the name of a factory written inline (the empty
\* string), and a read that throws
FalsyZero == "0"
EmptyString == ""
Restricted == "restricted"
\* how a load records that the function it called was an inherited built-in
Builtin == "builtin"
\* if (importFn)
TruthyFn(importFn) == importFn \notin {NoFn, FalsyZero, EmptyString}

(***************************************************************************)
(* Promise.prototype.then with a fulfilment callback only.  result is what *)
(* the callback does with the fulfilment value: a rejection passes through *)
(* untouched, a callback that throws rejects the derived promise.          *)
(***************************************************************************)
Then(settlement, result) ==
    IF settlement.state = "rejected"
    THEN settlement
    ELSE IF result.threw THEN Rejected(result.value) ELSE Fulfilled(result.value)

(***************************************************************************)
(* RemoteLoaderServer                                                      *)
(***************************************************************************)
\* the table as constructed: no own entries, the prototype of a plain object
EmptyMap == [own |-> [k \in Keys |-> NoFn], proto |-> ObjectProto]

\* table[key] for a key the table does not own, found along its prototype chain:
\* the factory installed as prototype (an arrow function written inline), then
\* Function.prototype, then Object.prototype; a built-in is named by where it
\* is defined
Inherited(proto, key) ==
    IF proto \in Factories /\ key = "length" THEN FalsyZero
    ELSE IF proto \in Factories /\ key = "name" THEN EmptyString
    ELSE IF proto \in Factories /\ key \in FunctionRestrictedKeys THEN Restricted
    ELSE IF proto \in Factories /\ key \in FunctionPrototypeKeys
    THEN "Function.prototype." \o key
    ELSE IF key \in ObjectPrototypeKeys THEN "Object.prototype." \o key
    ELSE NoFn

\* this.remoteModuleMap[key]: __proto__ reads the prototype, any other key an own
\* entry, else what the table inherits
MapGet(map, key) ==
    IF key = "__proto__" THEN map.proto
    ELSE IF map.own[key] # NoFn THEN map.own[key]
    ELSE Inherited(map.proto, key)

\* this.remoteModuleMap[remoteName + remoteModule] = importFn: under __proto__
\* the assignment replaces the table's prototype and adds no entry; under a name
\* that the prototype chain makes read-only or guards with a throwing setter it
\* throws and the table stays as it is; otherwise it writes the own entry
MapSet(map, remoteName, remoteModule, importFn) ==
    LET key == Key(remoteName, remoteModule)
    IN  IF key = "__proto__" THEN [map EXCEPT !.proto = importFn]
        ELSE IF /\ map.own[key] = NoFn
                /\ map.proto \in Factories
                /\ key \in FunctionReadOnlyKeys \cup FunctionRestrictedKeys
        THEN map
        ELSE [map EXCEPT !.own[key] = importFn]

\* the key of load("example", "App")
DevFallbackKeyOfExampleApp == "exampleApp"

\* key === 'exampleAppModule'
DevFallbackKey == "exampleAppModule"

NotFoundMessage(remoteName, remoteModule) ==
    "Remote module " \o remoteName \o "/" \o remoteModule
        \o " not found. Make sure to register it using registerRemoteModule."
NotFoundError(remoteName, remoteModule) ==
    [kind |-> "error", name |-> "Error",
     message |-> NotFoundMessage(remoteName, remoteModule)]

\* the server callback without its guard on the property, as the browser has it
ServerUnwrapUnguarded(remoteModule, m) ==
    IF remoteModule = "Module"
    THEN IF IsNullish(m) THEN Throw(NullishAccess(m))
         ELSE Return(GetRemoteEntryModule(m))
    ELSE Return(m)

\* m => remoteModule === 'Module' && m.RemoteEntryModule ? m.RemoteEntryModule : m
ServerUnwrap(remoteModule, m) ==
    IF remoteModule = "Module"
    THEN IF IsNullish(m) THEN Throw(NullishAccess(m))
         ELSE IF Truthy(GetRemoteEntryModule(m))
              THEN Return(GetRemoteEntryModule(m))
              ELSE Return(m)
    ELSE Return(m)

\* importFn().then for a built-in called with no receiver: toString, constructor
\* and isPrototypeOf of Object.prototype and the Function constructor return a
\* value that has no then; apply and call of Function.prototype find nothing to call; the
\* others throw on their missing receiver before anything is returned
BuiltinThrows(importFn) ==
    IF importFn \in {"Object.prototype.toString", "Object.prototype.constructor",
                     "Object.prototype.isPrototypeOf", "Function.prototype.constructor"}
    THEN NotThenable
    ELSE IF importFn = "Object.prototype.toLocaleString" THEN ToLocaleStringNoReceiver
    ELSE IF importFn = "Function.prototype.toString" THEN ToStringNoFunction
    ELSE IF importFn = "Function.prototype.bind" THEN BindNoFunction
    ELSE IF importFn \in {"Function.prototype.apply", "Function.prototype.call"}
    THEN NotCallable
    ELSE NoReceiver

\* what load does with a truthy value the table inherits: reading arguments or
\* caller has thrown at the lookup already; the prototype object cannot be
\* called; a built-in is called once and the expression throws
CallInherited(call, importFn) ==
    IF importFn = Restricted
    THEN [call EXCEPT !.value = RestrictedAccess]
    ELSE IF importFn = ObjectProto
    THEN [call EXCEPT !.value = NotCallable]
    ELSE [call EXCEPT !.fn = Builtin, !.calls = 1, !.value = BuiltinThrows(importFn)]

\* a load that hands out the promise of a load of the same key still in flight
\* and does not call importFn again
InvokeImportFnShared(call, importFn) ==
    IF importFn \in Factories
    THEN IF \E other \in BagToSet(pending) :
                /\ other.fn = importFn
                /\ Key(other.remoteName, other.item) = Key(call.remoteName, call.item)
         THEN [call EXCEPT !.fn = importFn, !.calls = 0, !.status = "pending"]
         ELSE [call EXCEPT !.fn = importFn, !.calls = 1, !.status = "pending"]
    ELSE CallInherited(call, importFn)

\* importFn().then(...): a registered factory is called once and hands back a
\* promise; for an inherited member the expression throws
InvokeImportFn(call, importFn) ==
    IF importFn \in Factories
    THEN [call EXCEPT !.fn = importFn, !.calls = 1, !.status = "pending"]
    ELSE CallInherited(call, importFn)

\* console.warn(...); return Promise.resolve({})
DevFallback(call) ==
    [call EXCEPT !.status = "fulfilled", !.value = EmptyObject, !.warned = TRUE]

\* returned in place of the throw by a load that rejects instead
RejectNotFound(call, remoteName, remoteModule) ==
    [call EXCEPT !.status = "rejected",
                 !.value = NotFoundError(remoteName, remoteModule)]

\* throw new Error(`Remote module ... not found. ...`)
ThrowNotFound(call, remoteName, remoteModule) ==
    [call EXCEPT !.value = NotFoundError(remoteName, remoteModule)]

\* a load that tries the development fallback before it looks the key up
ServerLoadFallbackFirst(map, env, remoteName, remoteModule) ==
    LET key == Key(remoteName, remoteModule)
        importFn == MapGet(map, key)
        call == [loader |-> "server", remoteName |-> remoteName,
                 item |-> remoteModule, fn |-> NoFn, calls |-> 0,
                 raw |-> NotSettled, status |-> "thrown", value |-> Undefined,
                 warned |-> FALSE]
    IN  IF env = "development" /\ key = DevFallbackKey
        THEN DevFallback(call)
        ELSE IF TruthyFn(importFn)
        THEN InvokeImportFn(call, importFn)
        ELSE ThrowNotFound(call, remoteName, remoteModule)

\* The synchronous part of RemoteLoaderServer.load: what the call hands back.
\* status "pending": a promise derived from importFn()'s promise;
\* status "fulfilled": an already resolved promise;
\* status "thrown": no promise, the call itself throws.
ServerLoad(map, env, remoteName, remoteModule) ==
    LET key == Key(remoteName, remoteModule)
        importFn == MapGet(map, key)
        call == [loader |-> "server", remoteName |-> remoteName,
                 item |-> remoteModule, fn |-> NoFn, calls |-> 0,
                 raw |-> NotSettled, status |-> "thrown", value |-> Undefined,
                 warned |-> FALSE]
    IN  IF TruthyFn(importFn)
        THEN InvokeImportFn(call, importFn)
        ELSE IF env = "development" /\ key = DevFallbackKey
        THEN DevFallback(call)
        ELSE ThrowNotFound(call, remoteName, remoteModule)

\* a load that catches the factory's rejection and rejects with an error of its own
ServerSettleWrapping(load, settlement) ==
    LET out == Then(settlement, ServerUnwrap(load.item, settlement.value))
        wrapped == IF settlement.state = "rejected"
                   THEN [kind |-> "error", name |-> "Error",
                         message |-> "Failed to load remote module"]
                   ELSE out.value
    IN  [load EXCEPT !.raw = settlement, !.status = out.state, !.value = wrapped]

\* importFn()'s promise settles: the promise load returned settles with it
ServerSettle(load, settlement) ==
    LET out == Then(settlement, ServerUnwrap(load.item, settlement.value))
    IN  [load EXCEPT !.raw = settlement, !.status = out.state, !.value = out.value]

(***************************************************************************)
(* RemoteLoaderBrowser                                                     *)
(***************************************************************************)
\* the second argument handed to loadRemoteModule
ExposedPath(remoteModule) == "./" \o remoteModule

\* the browser callback with the server's guard on the property
BrowserUnwrapIfPresent(remoteModule, m) ==
    IF remoteModule = "Module"
    THEN IF IsNullish(m) THEN Throw(NullishAccess(m))
         ELSE IF Truthy(GetRemoteEntryModule(m))
              THEN Return(GetRemoteEntryModule(m))
              ELSE Return(m)
    ELSE Return(m)

\* (m) => remoteModule === 'Module' ? m.RemoteEntryModule : m
BrowserUnwrap(remoteModule, m) ==
    IF remoteModule = "Module"
    THEN IF IsNullish(m) THEN Throw(NullishAccess(m))
         ELSE Return(GetRemoteEntryModule(m))
    ELSE Return(m)

\* RemoteLoaderBrowser.load up to the pending promise of loadRemoteModule(...).then
BrowserLoad(remoteName, remoteModule) ==
    [loader |-> "browser", remoteName |-> remoteName, item |-> remoteModule,
     fn |-> "loadRemoteModule", calls |-> 1, raw |-> NotSettled,
     status |-> "pending", value |-> Undefined, warned |-> FALSE,
     path |-> ExposedPath(remoteModule)]

BrowserSettle(load, settlement) ==
    LET out == Then(settlement, BrowserUnwrap(load.item, settlement.value))
    IN  [load EXCEPT !.raw = settlement, !.status = out.state, !.value = out.value]

(***************************************************************************)
(* State machine                                                           *)
(***************************************************************************)
NoLoad == [status |-> "none"]
NoTwin == [status |-> "none"]

Init ==
    /\ injected \in {"server", "browser"}
    /\ NODE_ENV \in {"development", "production"}
    /\ remoteModuleMap = EmptyMap
    /\ registered = [p \in AllRegPairs |-> NoFn]
    /\ overwritten = {}
    /\ pending = EmptyBag
    /\ completed = NoLoad
    /\ proxyModules = {}
    /\ instances = <<>>
    /\ twin = NoTwin

\* serverLoader.registerRemoteModule(remoteName, remoteModule, importFn)
RegisterRemoteModule(remoteName, remoteModule, importFn) ==
    /\ injected = "server"
    /\ remoteModuleMap' = MapSet(remoteModuleMap, remoteName, remoteModule, importFn)
    /\ registered' = [registered EXCEPT ![<<remoteName, remoteModule>>] = importFn]
    /\ overwritten' = IF registered[<<remoteName, remoteModule>>] \notin {NoFn, importFn}
                      THEN overwritten \cup {<<remoteName, remoteModule>>}
                      ELSE overwritten
    /\ UNCHANGED <<injected, NODE_ENV, pending, completed, proxyModules, instances, twin>>

\* what loader.load(remoteName, remoteModule) hands back, on the injected loader
LoadCall(loader, remoteName, remoteModule) ==
    IF loader = "server"
    THEN ServerLoad(remoteModuleMap, NODE_ENV, remoteName, remoteModule)
    ELSE BrowserLoad(remoteName, remoteModule)

\* the caller receives a pending promise, or an outcome at once
Deliver(call) ==
    IF call.status = "pending"
    THEN /\ BagCardinality(pending) < MaxPending
         /\ pending' = pending (+) SetToBag({call})
         /\ UNCHANGED completed
    ELSE /\ completed' = call
         /\ UNCHANGED pending

\* loader.load(remoteName, remoteModule), called directly
Load(remoteName, remoteModule) ==
    /\ Deliver(LoadCall(injected, remoteName, remoteModule))
    /\ UNCHANGED <<injected, NODE_ENV, remoteModuleMap, registered, overwritten,
                   proxyModules, instances, twin>>

\* a settlement that reads the table again and reports the factory it finds then
SettleLateBinding(load, settlement) ==
    /\ BagIn(load, pending)
    /\ completed' = IF load.loader = "server"
                    THEN [ServerSettle(load, settlement) EXCEPT
                             !.fn = MapGet(remoteModuleMap, Key(load.remoteName, load.item))]
                    ELSE BrowserSettle(load, settlement)
    /\ pending' = pending (-) SetToBag({load})
    /\ UNCHANGED <<injected, NODE_ENV, remoteModuleMap, registered, overwritten,
                   proxyModules, instances, twin>>

\* the promise behind a pending load settles
Settle(load, settlement) ==
    /\ BagIn(load, pending)
    /\ completed' = IF load.loader = "server"
                    THEN ServerSettle(load, settlement)
                    ELSE BrowserSettle(load, settlement)
    /\ pending' = pending (-) SetToBag({load})
    /\ UNCHANGED <<injected, NODE_ENV, remoteModuleMap, registered, overwritten,
                   proxyModules, instances, twin>>

(***************************************************************************)
(* remoteLoader(name) and the ProxyRoutingModule it builds.  The router is *)
(* the environment: it invokes the returned factory, instantiates the      *)
(* module it gets (which runs the ROUTES provider's useFactory), and then  *)
(* calls loadChildren of the one route that provider yields, any number of *)
(* times.                                                                  *)
(***************************************************************************)
\* the arguments of the load call inside the route's loadChildren closure
ProxyLoadArgs(name) == <<name, "Module">>

\* remoteLoader(name): declares ProxyRoutingModule, returns () => ProxyRoutingModule
RemoteLoaderCall(name) ==
    /\ proxyModules' = proxyModules \cup {name}
    /\ UNCHANGED <<injected, NODE_ENV, remoteModuleMap, registered, overwritten,
                   pending, completed, instances, twin>>

\* the factory returned by remoteLoader(name) is invoked: it returns the class
InvokeFactory(name) ==
    /\ name \in proxyModules
    /\ Len(instances) < MaxInstances
    /\ instances' = Append(instances, [name |-> name, stage |-> "module",
                                       loader |-> "none", loadArgs |-> <<>>])
    /\ UNCHANGED <<injected, NODE_ENV, remoteModuleMap, registered, overwritten,
                   pending, completed, proxyModules, twin>>

\* a useFactory that calls loader.load while the provider is resolved
ResolveRoutesEager(k) ==
    /\ k \in 1..Len(instances)
    /\ instances[k].stage = "module"
    /\ Deliver(LoadCall(injected, instances[k].name, "Module"))
    /\ instances' = [instances EXCEPT ![k].stage = "routes", ![k].loader = injected]
    /\ UNCHANGED <<injected, NODE_ENV, remoteModuleMap, registered, overwritten,
                   proxyModules, twin>>

\* useFactory: inject(RemoteLoader), return { path: '', loadChildren: ... }
ResolveRoutes(k) ==
    /\ k \in 1..Len(instances)
    /\ instances[k].stage = "module"
    /\ instances' = [instances EXCEPT ![k].stage = "routes", ![k].loader = injected]
    /\ UNCHANGED <<injected, NODE_ENV, remoteModuleMap, registered, overwritten,
                   pending, completed, proxyModules, twin>>

\* loadChildren: () => loader.load(name, 'Module'); the closure keeps nothing,
\* so the route object can be asked for its children again
LoadChildren(k) ==
    /\ k \in 1..Len(instances)
    /\ instances[k].stage \in {"routes", "loaded"}
    /\ Len(instances[k].loadArgs) < MaxRouteLoads
    /\ LET args == ProxyLoadArgs(instances[k].name)
       IN  /\ Deliver(LoadCall(instances[k].loader, args[1], args[2]))
           /\ instances' = [instances EXCEPT
                               ![k].stage = "loaded",
                               ![k].loadArgs = Append(@, args)]
    /\ UNCHANGED <<injected, NODE_ENV, remoteModuleMap, registered, overwritten,
                   proxyModules, twin>>

(***************************************************************************)
(* Both implementations side by side: the same pair is loaded through a    *)
(* server loader that has it registered and through the browser loader.    *)
(* The factory's promise and the runtime's promise settle alike, each in a *)
(* step of its own and in either order.                                    *)
(***************************************************************************)
TwinLoad(remoteName, remoteModule) ==
    /\ injected = "server"
    /\ remoteModuleMap.own[Key(remoteName, remoteModule)] \in Factories
    /\ twin' = [status |-> "pending",
                server |-> ServerLoad(remoteModuleMap, NODE_ENV, remoteName, remoteModule),
                browser |-> BrowserLoad(remoteName, remoteModule)]
    /\ UNCHANGED <<injected, NODE_ENV, remoteModuleMap, registered, overwritten,
                   pending, completed, proxyModules, instances>>

\* the factory's promise settles and the server load's callback runs; when the
\* browser leg has settled already, the factory's promise settles as the
\* runtime's did
TwinSettleServer(settlement) ==
    /\ twin.status \in {"pending", "half"}
    /\ twin.server.status = "pending"
    /\ twin.browser.status = "pending" \/ twin.browser.raw = settlement
    /\ twin' = [twin EXCEPT
                   !.status = IF twin.browser.status = "pending" THEN "half" ELSE "settled",
                   !.server = ServerSettle(twin.server, settlement)]
    /\ UNCHANGED <<injected, NODE_ENV, remoteModuleMap, registered, overwritten,
                   pending, completed, proxyModules, instances>>

\* the runtime's promise settles and the browser load's callback runs; when the
\* server leg has settled already, the runtime's promise settles as the
\* factory's did
TwinSettleBrowser(settlement) ==
    /\ twin.status \in {"pending", "half"}
    /\ twin.browser.status = "pending"
    /\ twin.server.status = "pending" \/ twin.server.raw = settlement
    /\ twin' = [twin EXCEPT
                   !.status = IF twin.server.status = "pending" THEN "half" ELSE "settled",
                   !.browser = BrowserSettle(twin.browser, settlement)]
    /\ UNCHANGED <<injected, NODE_ENV, remoteModuleMap, registered, overwritten,
                   pending, completed, proxyModules, instances>>

Next ==
    \/ \E p \in RegPairs, f \in Factories : RegisterRemoteModule(p[1], p[2], f)
    \/ \E p \in LoadPairs : Load(p[1], p[2])
    \/ \E load \in BagToSet(pending), s \in Settlements : Settle(load, s)

Spec == Init /\ [][Next]_vars

NextRoute ==
    \/ \E name \in RouteNames : RemoteLoaderCall(name)
    \/ \E name \in RouteNames : InvokeFactory(name)
    \/ \E k \in 1..MaxInstances : ResolveRoutes(k)
    \/ \E k \in 1..MaxInstances : LoadChildren(k)
    \/ \E load \in BagToSet(pending), s \in Settlements : Settle(load, s)

SpecRoute == Init /\ [][NextRoute]_vars

NextTwin ==
    \/ \E p \in RegPairs, f \in Factories : RegisterRemoteModule(p[1], p[2], f)
    \/ \E p \in RegPairs : TwinLoad(p[1], p[2])
    \/ \E s \in Settlements : TwinSettleServer(s)
    \/ \E s \in Settlements : TwinSettleBrowser(s)

SpecTwin == Init /\ [][NextTwin]_vars

\* registrations and loads around the key '__proto__'
ProtoRegPairs == {ProtoPair, <<"app1", "Module">>}
ProtoLoadPairs == ProtoRegPairs \cup {<<"to", "String">>, <<"value", "Of">>}

NextProto ==
    \/ \E p \in ProtoRegPairs, f \in Factories : RegisterRemoteModule(p[1], p[2], f)
    \/ \E p \in ProtoLoadPairs : Load(p[1], p[2])
    \/ \E load \in BagToSet(pending), s \in Settlements : Settle(load, s)

SpecProto == Init /\ [][NextProto]_vars

(***************************************************************************)
(* Properties                                                              *)
(***************************************************************************)
\* t occurs in s
Contains(s, t) ==
    \E k \in 1..(Len(s) - Len(t) + 1) : SubSeq(s, k, k + Len(t) - 1) = t

\* every load handed to a caller so far that is still visible in the state
Loads == BagToSet(pending) \cup (IF completed.status = "none" THEN {} ELSE {completed})

NeverRegistered(remoteName, remoteModule) ==
    <<remoteName, remoteModule>> \in AllRegPairs => registered[<<remoteName, remoteModule>>] = NoFn

\* C1: a server load that reached a registered factory whose promise resolved to V
\* resolves to V, or to V's RemoteEntryModule when the item is 'Module' and V has
\* that property; V ranges over null and over objects whose property is falsy.
C1_ResolvesToFactoryValue ==
    (/\ completed.status # "none"
     /\ completed.loader = "server"
     /\ completed.fn \in Factories
     /\ completed.raw.state = "fulfilled")
    => /\ completed.status = "fulfilled"
       /\ completed.value =
            IF completed.item = "Module" /\ HasRemoteEntryModule(completed.raw.value)
            THEN completed.raw.value.RemoteEntryModule
            ELSE completed.raw.value

\* C2: a server load of a pair that was never registered, and whose key is not the
\* development sentinel, fails with an error naming remoteName and item; it never
\* reaches a factory.
C2_UnregisteredFails ==
    \A load \in Loads :
        (/\ load.loader = "server"
         /\ NeverRegistered(load.remoteName, load.item)
         /\ Key(load.remoteName, load.item) # DevFallbackKey)
        => /\ load.status \in {"thrown", "rejected"}
           /\ load.fn = NoFn
           /\ Contains(load.value.message, load.remoteName)
           /\ Contains(load.value.message, load.item)

\* C3 as stated: a failure of load always arrives as a rejected promise; load never
\* throws in place of returning a promise.
C3_NeverThrows ==
    completed.status # "none" => completed.status # "thrown"

\* C3 amended: a failure of the awaited promise (the factory's, the federation
\* runtime's) or of the unwrapping arrives as a rejected promise; a server load
\* that finds no own factory and takes no development fallback throws at the
\* call (not-found, or a TypeError when the key names a member the table
\* inherits), and only the server loader ever throws.
C3_FailureChannels ==
    completed.status # "none" =>
        /\ completed.loader = "browser" => completed.status # "thrown"
        /\ completed.fn \in Factories \cup {"loadRemoteModule"}
              => completed.status \in {"fulfilled", "rejected"}
        /\ completed.raw.state = "rejected" => completed.status = "rejected"
        /\ (completed.loader = "server" /\ completed.fn \notin Factories
                                        /\ ~completed.warned)
              => /\ completed.status = "thrown"
                 /\ IF completed.remoteName \o completed.item \in ObjectPrototypeKeys
                    THEN completed.value.name = "TypeError"
                    ELSE completed.value =
                            NotFoundError(completed.remoteName, completed.item)
        /\ completed.status = "thrown"
              => /\ completed.loader = "server"
                 /\ completed.fn \notin Factories
                 /\ completed.raw = NotSettled

\* the server loader threw not-found at the call
C3_Witness ==
    /\ completed.status = "thrown"
    /\ completed.loader = "server"
    /\ completed.fn = NoFn
    /\ completed.value = NotFoundError("example", "App")

\* C4 as stated: a browser load whose runtime promise resolved to V resolves to V's
\* RemoteEntryModule when the item is 'Module' and V has that property, and to V
\* unchanged in every other case.
C4_BrowserKeepsValueWithoutEntry ==
    (/\ completed.status # "none"
     /\ completed.loader = "browser"
     /\ completed.raw.state = "fulfilled")
    => /\ completed.status = "fulfilled"
       /\ completed.value =
            IF completed.item = "Module" /\ HasRemoteEntryModule(completed.raw.value)
            THEN completed.raw.value.RemoteEntryModule
            ELSE completed.raw.value

\* C4 amended: for an item other than 'Module' the browser load resolves to V
\* unchanged; for 'Module' it resolves to V.RemoteEntryModule whether or not V has
\* the property (undefined when it has not), and rejects with a TypeError when V
\* is null or undefined.
C4_BrowserUnwrap ==
    (/\ completed.status # "none"
     /\ completed.loader = "browser"
     /\ completed.raw.state = "fulfilled")
    => IF completed.item # "Module"
       THEN completed.status = "fulfilled" /\ completed.value = completed.raw.value
       ELSE IF completed.raw.value.kind \in {"null", "undefined"}
       THEN completed.status = "rejected" /\ completed.value.name = "TypeError"
       ELSE /\ completed.status = "fulfilled"
            /\ completed.value =
                 IF "RemoteEntryModule" \in DOMAIN completed.raw.value
                 THEN completed.raw.value.RemoteEntryModule
                 ELSE Undefined

\* a browser load of 'Module' resolved to undefined from a module without the property
C4_Witness ==
    /\ completed.status = "fulfilled"
    /\ completed.loader = "browser"
    /\ completed.item = "Module"
    /\ completed.raw = Fulfilled(PlainY)
    /\ completed.value = Undefined

\* a server load of the pair starts in this step
StartsServerLoad(load, remoteName, remoteModule) ==
    /\ CopiesIn(load, pending') = CopiesIn(load, pending) + 1
    /\ load.loader = "server"
    /\ load.remoteName = remoteName
    /\ load.item = remoteModule

\* C5: once a pair was registered with one factory and then with another, every
\* later load of the pair invokes the factory registered last for that pair,
\* whatever other pairs are registered in between or afterwards.
C5_LastWriteWins ==
    [][\A p \in RegPairs : \A load \in BagToSet(pending') :
          (p \in overwritten /\ StartsServerLoad(load, p[1], p[2]))
              => load.fn = registered[p]]_vars

\* C6: registering a factory for one pair leaves the outcome of load unchanged for
\* every other pair.
C6_PairsIndependent ==
    [][\A p2 \in RegPairs :
          registered'[p2] # registered[p2]
              => \A p1 \in LoadPairs \ {p2} :
                    ServerLoad(remoteModuleMap', NODE_ENV, p1[1], p1[2])
                        = ServerLoad(remoteModuleMap, NODE_ENV, p1[1], p1[2])]_vars

NothingRegistered == remoteModuleMap = EmptyMap

\* C7 as stated: in development mode with nothing registered, load("example", "App")
\* resolves to an empty object with a warning.
C7_ExampleAppFallsBack ==
    (/\ completed.status # "none"
     /\ completed.loader = "server"
     /\ NODE_ENV = "development"
     /\ NothingRegistered
     /\ completed.remoteName = "example"
     /\ completed.item = "App")
    => /\ completed.status = "fulfilled"
       /\ completed.value = EmptyObject
       /\ completed.warned

\* C7 amended: in development mode with nothing registered, a load whose
\* remoteName + item is exactly 'exampleAppModule' (load("exampleApp", "Module"))
\* resolves to an empty object with a warning; load("example", "App") has the key
\* 'exampleApp' and throws the not-found error without a warning.
C7_SentinelKeyFallsBack ==
    (/\ completed.status # "none"
     /\ completed.loader = "server"
     /\ NODE_ENV = "development"
     /\ NothingRegistered)
    => /\ completed.remoteName \o completed.item = "exampleAppModule"
          => /\ completed.status = "fulfilled"
             /\ completed.value = EmptyObject
             /\ completed.warned
       /\ (completed.remoteName = "example" /\ completed.item = "App")
          => /\ completed.status = "thrown"
             /\ completed.value = NotFoundError("example", "App")
             /\ ~completed.warned

\* the fallback was taken for load("exampleApp", "Module")
C7_Witness ==
    /\ completed.status = "fulfilled"
    /\ completed.loader = "server"
    /\ NODE_ENV = "development"
    /\ NothingRegistered
    /\ completed.remoteName = "exampleApp"
    /\ completed.item = "Module"
    /\ completed.warned

\* one more load is handed out in this step, through the given loader, for
\* (remoteName, 'Module'): as a pending promise or as an outcome at once
StartsEntryLoad(loader, remoteName) ==
    \/ /\ completed' = completed
       /\ BagCardinality(pending') = BagCardinality(pending) + 1
       /\ \E load \in BagToSet(pending') :
             /\ CopiesIn(load, pending') = CopiesIn(load, pending) + 1
             /\ load.loader = loader
             /\ load.remoteName = remoteName
             /\ load.item = "Module"
    \/ /\ pending' = pending
       /\ completed'.status \in {"fulfilled", "thrown"}
       /\ completed'.loader = loader
       /\ completed'.remoteName = remoteName
       /\ completed'.item = "Module"

\* C8 as stated: each invocation of the factory, once the children of its route
\* have been loaded, has called load(name, 'Module') exactly once.
C8_OneLoadPerInvocation ==
    \A k \in 1..Len(instances) :
        instances[k].loadArgs =
            IF instances[k].stage = "loaded"
            THEN << <<instances[k].name, "Module">> >>
            ELSE <<>>

\* the load calls made through the routes of the first k invocations in insts
RECURSIVE RouteLoads(_, _)
RouteLoads(insts, k) ==
    IF k = 0 THEN 0 ELSE Len(insts[k].loadArgs) + RouteLoads(insts, k - 1)

\* C8 amended: calling remoteLoader(name) calls load zero times, and so do invoking
\* the factory it returns and resolving the ProxyRoutingModule's ROUTES provider;
\* every call of the loadChildren closure of the route that provider yields calls
\* load(name, 'Module') exactly once on the loader injected when the provider was
\* resolved, a further call on the same route or on a later invocation's route
\* calls load again, and load is called from nowhere else.
C8_OneLoadPerLoadChildren ==
    /\ [](\A k \in 1..Len(instances) :
            /\ \A n \in 1..Len(instances[k].loadArgs) :
                  instances[k].loadArgs[n] = <<instances[k].name, "Module">>
            /\ instances[k].stage = "loaded" <=> Len(instances[k].loadArgs) > 0)
    /\ [][/\ (\/ proxyModules' # proxyModules
              \/ Len(instances') > Len(instances)
              \/ \E k \in 1..Len(instances) :
                    instances[k].stage = "module" /\ instances'[k].stage # "module")
             => UNCHANGED <<pending, completed>>
          /\ \A k \in 1..Len(instances) :
                instances'[k].loadArgs # instances[k].loadArgs
                    => /\ Len(instances'[k].loadArgs) = Len(instances[k].loadArgs) + 1
                       /\ RouteLoads(instances', Len(instances'))
                             = RouteLoads(instances, Len(instances)) + 1
                       /\ instances[k].loader = injected
                       /\ StartsEntryLoad(instances[k].loader, instances[k].name)
          /\ (BagCardinality(pending') > BagCardinality(pending)
                 \/ (pending' = pending /\ completed' # completed))
             => RouteLoads(instances', Len(instances'))
                             = RouteLoads(instances, Len(instances)) + 1]_vars

\* the route of one invocation was asked for its children twice and called load
\* twice, and the route of a second invocation for the same name called it too
C8_Witness ==
    /\ Len(instances) = 2
    /\ instances[1].name = instances[2].name
    /\ Len(instances[1].loadArgs) = 2
    /\ Len(instances[2].loadArgs) = 1

\* C9: when the promise a load awaits (the registered factory's, the federation
\* runtime's) rejects with E, the load rejects with the same E, and the factory
\* or runtime was invoked once for it.
C9_RejectionPropagates ==
    (completed.status # "none" /\ completed.raw.state = "rejected")
    => /\ completed.status = "rejected"
       /\ completed.value = completed.raw.value
       /\ completed.calls = 1

\* a server load rejected with the error its factory's promise rejected with
C9_Witness ==
    /\ completed.status = "rejected"
    /\ completed.loader = "server"
    /\ completed.fn \in Factories
    /\ completed.raw = Rejected(UpstreamError)
    /\ completed.value = UpstreamError

\* C10 as stated: for every item and every settlement of the underlying promise,
\* the server load and the browser load settle alike.
C10_SameOutcome ==
    twin.status = "settled"
    => /\ twin.server.status = twin.browser.status
       /\ twin.server.value = twin.browser.value

\* C10 amended: the two loads settle alike except when the item is 'Module' and
\* the resolved value V is an object whose RemoteEntryModule is missing or falsy:
\* there the server load resolves to V and the browser load to V.RemoteEntryModule.
C10_SameOutcomeUnlessEntryFalsy ==
    twin.status = "settled"
    => LET v == twin.server.raw.value
           entry == IF "RemoteEntryModule" \in DOMAIN v
                    THEN v.RemoteEntryModule ELSE Undefined
       IN  IF /\ twin.server.raw.state = "fulfilled"
              /\ twin.server.item = "Module"
              /\ v.kind \notin {"null", "undefined"}
              /\ entry \in {Undefined, Null, Zero}
           THEN /\ twin.server.status = "fulfilled"
                /\ twin.browser.status = "fulfilled"
                /\ twin.server.value = v
                /\ twin.browser.value = entry
           ELSE /\ twin.server.status = twin.browser.status
                /\ twin.server.value = twin.browser.value

\* both loaders loaded 'Module' from a module without the property and differ
C10_Witness ==
    /\ twin.status = "settled"
    /\ twin.server.item = "Module"
    /\ twin.server.raw = Fulfilled(PlainY)
    /\ twin.server.value = PlainY
    /\ twin.browser.value = Undefined

\* C11: the registration table starts empty; a step in which a load is handed out
\* or settles (registered hit, development fallback, not-found, rejection) leaves
\* it unchanged; an entry, once present, stays present; and every call of
\* registerRemoteModule changes the one entry under remoteName + remoteModule and
\* nothing else of the table, so that the table changes in no other way.
C11_TableFrame ==
    /\ NothingRegistered
    /\ [][/\ (pending' # pending \/ completed' # completed)
                => remoteModuleMap' = remoteModuleMap
          /\ \A k \in Keys : remoteModuleMap.own[k] # NoFn => remoteModuleMap'.own[k] # NoFn
          /\ (remoteModuleMap' # remoteModuleMap \/ registered' # registered)
                => \E p \in AllRegPairs, f \in Factories :
                      /\ registered'[p] = f
                      /\ remoteModuleMap' =
                            [remoteModuleMap EXCEPT !.own[p[1] \o p[2]] = f]
                      /\ pending' = pending
                      /\ completed' = completed]_vars

\* a server load is answered at the call in this step, with no promise awaited
AnsweredAtOnce ==
    /\ pending' = pending
    /\ completed' # completed
    /\ completed'.loader = "server"

\* C12: a server load takes the development fallback only if, when it is called,
\* no factory is registered under its key, the mode is 'development' and
\* remoteName + item is 'exampleAppModule'; with a factory registered under that
\* key the load invokes the factory in every mode; and outside development the
\* unregistered call fails with the not-found error.
C12_FallbackOnlyForSentinel ==
    [][/\ (AnsweredAtOnce /\ (completed'.warned \/ completed'.status = "fulfilled"))
            => /\ remoteModuleMap.own["exampleAppModule"] = NoFn
               /\ NODE_ENV = "development"
               /\ completed'.remoteName \o completed'.item = "exampleAppModule"
               /\ completed'.status = "fulfilled"
               /\ completed'.value = EmptyObject
               /\ completed'.warned
       /\ \A load \in BagToSet(pending') :
            (/\ CopiesIn(load, pending') = CopiesIn(load, pending) + 1
             /\ load.loader = "server"
             /\ load.remoteName \o load.item = "exampleAppModule")
            => /\ remoteModuleMap.own["exampleAppModule"] \in Factories
               /\ load.fn = remoteModuleMap.own["exampleAppModule"]
               /\ ~load.warned
       /\ (/\ AnsweredAtOnce
           /\ NODE_ENV # "development"
           /\ completed'.remoteName \o completed'.item = "exampleAppModule")
            => /\ remoteModuleMap.own["exampleAppModule"] = NoFn
               /\ completed'.status = "thrown"
               /\ completed'.value =
                     NotFoundError(completed'.remoteName, completed'.item)
               /\ ~completed'.warned
       /\ (remoteModuleMap.own["exampleAppModule"] \in Factories /\ AnsweredAtOnce)
            => completed'.remoteName \o completed'.item # "exampleAppModule"]_vars

\* in development the fallback was taken for 'exampleAppModule', and after a
\* factory was registered under that key a load of it awaits the factory
C12_Witness ==
    /\ NODE_ENV = "development"
    /\ completed.status = "fulfilled"
    /\ completed.warned
    /\ completed.remoteName \o completed.item = "exampleAppModule"
    /\ \E load \in BagToSet(pending) :
          /\ load.remoteName \o load.item = "exampleAppModule"
          /\ load.fn \in Factories

\* C13: a server load is bound to the factory the table holds under its key when
\* load is called: a registration made while the load is pending leaves the
\* pending load as it is, and the load settles from the promise of the factory
\* it was bound to, with that one invocation, whatever the table holds by then.
C13_BoundAtCallTime ==
    [][/\ \A load \in BagToSet(pending') :
            (/\ CopiesIn(load, pending') = CopiesIn(load, pending) + 1
             /\ load.loader = "server")
            => /\ load.fn = MapGet(remoteModuleMap, load.remoteName \o load.item)
               /\ load.fn \in Factories
               /\ load.calls = 1
       /\ (remoteModuleMap' # remoteModuleMap \/ registered' # registered)
            => pending' = pending /\ completed' = completed
       /\ BagCardinality(pending') < BagCardinality(pending)
            => \E load \in BagToSet(pending) :
                  /\ pending' = pending (-) SetToBag({load})
                  /\ completed'.remoteName = load.remoteName
                  /\ completed'.item = load.item
                  /\ completed'.fn = load.fn
                  /\ completed'.calls = load.calls
                  /\ completed'.status \in {"fulfilled", "rejected"}]_vars

\* a load bound to F1 settled after its pair had been re-registered with F2
C13_Witness ==
    /\ completed.status = "fulfilled"
    /\ completed.loader = "server"
    /\ completed.fn = "F1"
    /\ <<completed.remoteName, completed.item>> \in overwritten
    /\ registered[<<completed.remoteName, completed.item>>] = "F2"
    /\ remoteModuleMap.own[completed.remoteName \o completed.item] = "F2"

\* factory invocations behind the pending loads in S, counted with multiplicity
RECURSIVE InvocationsIn(_)
InvocationsIn(S) ==
    IF S = {} THEN 0
    ELSE LET load == CHOOSE x \in S : TRUE
         IN  CopiesIn(load, pending) * load.calls + InvocationsIn(S \ {load})

\* C14: every server load of a registered key adds one pending load with one
\* invocation of the registered factory of its own, also while a load of the same
\* key is still pending, so k pending loads stand for k invocations; settling
\* invokes nothing further; a load answered by the development fallback or the
\* not-found error has invoked no factory.
C14_OneInvocationPerLoad ==
    /\ [](InvocationsIn(BagToSet(pending)) = BagCardinality(pending))
    /\ [][/\ \A load \in BagToSet(pending') :
               (/\ CopiesIn(load, pending') > CopiesIn(load, pending)
                /\ load.loader = "server")
               => /\ CopiesIn(load, pending') = CopiesIn(load, pending) + 1
                  /\ BagCardinality(pending') = BagCardinality(pending) + 1
                  /\ load.calls = 1
                  /\ load.fn \in Factories
          /\ BagCardinality(pending') < BagCardinality(pending)
               => /\ BagCardinality(pending') = BagCardinality(pending) - 1
                  /\ completed'.calls = 1
          /\ (/\ AnsweredAtOnce
              /\ \/ completed'.warned
                 \/ completed'.value =
                        NotFoundError(completed'.remoteName, completed'.item))
               => /\ completed'.calls = 0
                  /\ completed'.fn = NoFn]_vars

\* two loads of the same key overlap, each with its own factory invocation
C14_Witness ==
    \E load \in BagToSet(pending) :
        /\ load.loader = "server"
        /\ load.fn \in Factories
        /\ load.calls = 1
        /\ CopiesIn(load, pending) = 2
====
